---- MODULE Spec2Model ----
(***************************************************************************)
(* shufti-matcher: a byte-set membership scanner.                          *)
(*                                                                         *)
(*   shufti-macro/src/lib.rs    the derive: attribute parsing, validation  *)
(*                              of the set literal, the fast and the slow  *)
(*                              (packing) table builders                   *)
(*   shufti-matcher/src/lib.rs  ShuftiTable::bitmask_16b and find_first    *)
(*   shufti-matcher/src/arch    the free-standing bitmask_16b back-ends    *)
(*                                                                         *)
(* The specifications share the variables:                                 *)
(*   SpecDerive    one expansion of #[derive(ShuftiMatcher)], the slow     *)
(*                 builder's loop taken one needle at a time;              *)
(*   SpecFind      calls of find_first, the scan loop taken one chunk at a *)
(*                 time;                                                   *)
(*   SpecFindFair  one call of find_first from an idle caller on, a call  *)
(*                 that has begun running to its return;                   *)
(*   SpecBackend   one chunk handed to each of the bitmask_16b back-ends.  *)
(* Sequences are 1-based here and 0-based in the source: the source's      *)
(* s[i] is s[i + 1] below.  Tables are functions on 0..15.                 *)
(***************************************************************************)
EXTENDS Integers, Sequences, FiniteSets, TLC

VARIABLES
    \* ---- the derive (shufti-macro) ----
    attrs,          \* input: the attributes of the declaration
    pc,             \* "derive" | "slow" | "done" | "off"
    set_str,        \* the set literal extract_set_attr returned (characters)
    needles,        \* set_str.bytes()
    low_tab,        \* build_shufti_table_slow: low_tab
    high_tab,       \* build_shufti_table_slow: high_tab
    current_bit,    \* build_shufti_table_slow: current_bit
    assigned_mask,  \* build_shufti_table_slow: assigned_mask
    idx,            \* number of needles the `for &c in targets` loop has taken
    placed,         \* history: the column each processed needle went into
    builder,        \* history: the builder impl_shufti_matcher has called
    shifts,         \* history: the amounts k of the shifts `1 << k` the builders made
    outcome,        \* what impl_shufti_matcher returned
    \* ---- the scanner (shufti-matcher) ----
    matcher,        \* which declared matcher find_first belongs to
    haystack,       \* input of find_first
    offset,         \* find_first: offset
    fpc,            \* "loop" | "done" | "off"
    ret,            \* find_first's return value (None or Some(i))
    prev_ret,       \* history: the return value of the previous call
    pad,            \* history: bytes appended to the haystack since that call
    views,          \* history: the 16-byte views the main loop has read
    epi,            \* history: the epilogue buffer, once it is evaluated
    via,            \* history: the return statement find_first left by
    \* ---- the back-ends (shufti-matcher/src/arch) ----
    call,           \* the arguments of bitmask_16b: low_tab, high_tab, bit_mask, data
    masks           \* what each back-end returned for them (None: not called)

derive_vars == <<attrs, pc, set_str, needles, low_tab, high_tab, current_bit,
                 assigned_mask, idx, placed, builder, shifts, outcome>>
find_vars == <<matcher, haystack, offset, fpc, ret, prev_ret, pad, views, epi, via>>
backend_vars == <<call, masks>>
vars == <<attrs, pc, set_str, needles, low_tab, high_tab, current_bit, assigned_mask,
          idx, placed, builder, shifts, outcome, matcher, haystack, offset, fpc, ret, prev_ret,
          pad, views, epi, via, call, masks>>

----------------------------------------------------------------------------
(* Bounds of the model.                                                    *)

\* longest prefix of the diagonal 0x00, 0x11, 0x22, ... a set literal starts with
MaxPrefix == 8
\* longest tail of free characters that follows the prefix
MaxTail == 4
\* most attributes on a declaration
MaxAttrs == 2
\* longest haystack find_first is first called on
MaxHayLen == 33
\* most bytes appended to a haystack before find_first is called again
MaxPad == 2

(* Program constants.                                                      *)

\* width of a chunk: `offset + 16 <= haystack.len()`, `[0u8; 16]`
CHUNK == 16
\* number of bit columns of a table entry: `current_bit >= 8`
COLUMNS == 8
\* `needles.len() <= 8` selects the fast builder
FAST_MAX == 8

----------------------------------------------------------------------------
(* Option, slices, unsigned arithmetic.                                    *)

None == <<>>
Some(x) == <<x>>

Range(s) == {s[i] : i \in 1..Len(s)}

\* slice::contains
Contains(s, x) == \E i \in 1..Len(s) : s[i] = x

RECURSIVE BitAnd(_, _)
\* a & b
BitAnd(a, b) ==
    IF a = 0 \/ b = 0 THEN 0
    ELSE (a % 2) * (b % 2) + 2 * BitAnd(a \div 2, b \div 2)

RECURSIVE BitOr(_, _)
\* a | b
BitOr(a, b) ==
    IF a = 0 THEN b
    ELSE IF b = 0 THEN a
    ELSE (IF a % 2 = 1 \/ b % 2 = 1 THEN 1 ELSE 0) + 2 * BitOr(a \div 2, b \div 2)

\* x << k on a u8.  A shift by 8 or more panics in a build with overflow
\* checks and takes k mod 8 in one without; the model takes k mod 8.
Shl8(x, k) == (x * (2 ^ (k % 8))) % 256

\* bit k of x
Bit(x, k) == (x \div (2 ^ k)) % 2

Zero16 == [n \in 0..15 |-> 0]

\* the byte with high nibble hi and low nibble lo
ByteOf(hi, lo) == 16 * hi + lo

----------------------------------------------------------------------------
(* shufti-macro: the table builders.                                       *)

RECURSIVE FastLoopSwapped(_, _, _, _)
\* FastLoop with the two nibbles taken for one another
FastLoopSwapped(ns, i, low, high) ==
    IF i >= Len(ns) THEN <<low, high>>
    ELSE LET byte == ns[i + 1]
             bit == Shl8(1, i)
         IN FastLoopSwapped(ns, i + 1,
                            [low EXCEPT ![byte \div 16] = BitOr(@, bit)],
                            [high EXCEPT ![BitAnd(byte, 15)] = BitOr(@, bit)])

RECURSIVE FastLoop(_, _, _, _)
\* the loop of build_shufti_tables, from index i on
FastLoop(ns, i, low, high) ==
    IF i >= Len(ns) THEN <<low, high>>
    ELSE LET byte == ns[i + 1]
             bit == Shl8(1, i)
         IN FastLoop(ns, i + 1,
                     [low EXCEPT ![BitAnd(byte, 15)] = BitOr(@, bit)],
                     [high EXCEPT ![byte \div 16] = BitOr(@, bit)])

\* (1u32 << needles.len()).wrapping_sub(1) as u8, for a length below 32:
\* the low eight bits of 2^n - 1, which are all ones from n = 8 on
FastBitMask(n) == IF n < 8 THEN ((2 ^ n) - 1) % 256 ELSE 255

build_shufti_tables(ns) ==
    LET t == FastLoop(ns, 0, Zero16, Zero16)
    IN [low_tab |-> t[1], high_tab |-> t[2], bit_mask |-> FastBitMask(Len(ns))]

\* `for (i, &byte) in needles.iter().enumerate()`, `bit = 1u8 << i`:
\* needle i goes into column i
FastColumns(ns) == [i \in 1..Len(ns) |-> i - 1]

\* the shift amounts of `1u8 << i` over that loop
FastShifts(ns) == {i - 1 : i \in 1..Len(ns)}

\* is_safe that forgets ghost2
is_safe_ghost1_only(bit_index, candidate, targets, current_low, current_high) ==
    LET c_hi == candidate \div 16
        bit == Shl8(1, bit_index)
        his == {h \in 0..15 : BitAnd(current_high[h], bit) # 0}
        los == {l \in 0..15 : BitAnd(current_low[l], bit) # 0}
    IN \A other_hi \in his : \A other_lo \in los :
          Contains(targets, BitOr(c_hi * 16, other_lo) % 256)

is_safe(bit_index, candidate, targets, current_low, current_high) ==
    LET c_hi == candidate \div 16
        c_lo == BitAnd(candidate, 15)
        bit == Shl8(1, bit_index)
        his == {h \in 0..15 : BitAnd(current_high[h], bit) # 0}
        los == {l \in 0..15 : BitAnd(current_low[l], bit) # 0}
    IN \A other_hi \in his : \A other_lo \in los :
          LET ghost1 == BitOr(c_hi * 16, other_lo) % 256
              ghost2 == BitOr(other_hi * 16, c_lo) % 256
          IN Contains(targets, ghost1) /\ Contains(targets, ghost2)

\* FirstSafe that takes the first allocated column without asking is_safe
FirstSafeUnchecked(b, cur, c, targets, low, high) == IF b >= cur THEN -1 ELSE b

RECURSIVE LastSafe(_, _, _, _, _, _)
\* FirstSafe that keeps looking and takes the highest safe column
LastSafe(b, cur, c, targets, low, high) ==
    IF b >= cur THEN -1
    ELSE LET rest == LastSafe(b + 1, cur, c, targets, low, high)
         IN IF rest >= 0 THEN rest
            ELSE IF is_safe(b, c, targets, low, high) THEN b
            ELSE -1

RECURSIVE FirstSafe(_, _, _, _, _, _)
\* `for b in 0..current_bit { if is_safe(..) { ..; break } }`: the column
\* the loop stops at, or -1 when it runs out (placed stays false)
FirstSafe(b, cur, c, targets, low, high) ==
    IF b >= cur THEN -1
    ELSE IF is_safe(b, c, targets, low, high) THEN b
    ELSE FirstSafe(b + 1, cur, c, targets, low, high)

\* SlowBody that, on joining an allocated column, sets the bit in low_tab only
SlowBodyLowOnly(targets, c, st) ==
    LET hi == c \div 16
        lo == BitAnd(c, 15)
        b == FirstSafe(0, st.current_bit, c, targets, st.low_tab, st.high_tab)
    IN IF b >= 0
       THEN [st EXCEPT !.low_tab[lo] = BitOr(@, Shl8(1, b)), !.col = b]
       ELSE IF st.current_bit < COLUMNS
       THEN [low_tab |-> [st.low_tab EXCEPT ![lo] = BitOr(@, Shl8(1, st.current_bit))],
             high_tab |-> [st.high_tab EXCEPT ![hi] = BitOr(@, Shl8(1, st.current_bit))],
             assigned_mask |-> BitOr(st.assigned_mask, Shl8(1, st.current_bit)),
             current_bit |-> st.current_bit + 1,
             col |-> st.current_bit]
       ELSE [st EXCEPT !.col = -1]

\* SlowBody that allocates a fresh column without recording it in assigned_mask
SlowBodyStaleMask(targets, c, st) ==
    LET hi == c \div 16
        lo == BitAnd(c, 15)
        b == FirstSafe(0, st.current_bit, c, targets, st.low_tab, st.high_tab)
    IN IF b >= 0
       THEN [st EXCEPT !.low_tab[lo] = BitOr(@, Shl8(1, b)),
                       !.high_tab[hi] = BitOr(@, Shl8(1, b)),
                       !.col = b]
       ELSE IF st.current_bit < COLUMNS
       THEN [low_tab |-> [st.low_tab EXCEPT ![lo] = BitOr(@, Shl8(1, st.current_bit))],
             high_tab |-> [st.high_tab EXCEPT ![hi] = BitOr(@, Shl8(1, st.current_bit))],
             assigned_mask |-> st.assigned_mask,
             current_bit |-> st.current_bit + 1,
             col |-> st.current_bit]
       ELSE [st EXCEPT !.col = -1]

\* the body of `for &c in targets` after its `current_bit >= 8` test;
\* col is the column c went into (-1: none)
SlowBody(targets, c, st) ==
    LET hi == c \div 16
        lo == BitAnd(c, 15)
        b == FirstSafe(0, st.current_bit, c, targets, st.low_tab, st.high_tab)
    IN IF b >= 0
       THEN [st EXCEPT !.low_tab[lo] = BitOr(@, Shl8(1, b)),
                       !.high_tab[hi] = BitOr(@, Shl8(1, b)),
                       !.col = b]
       ELSE IF st.current_bit < COLUMNS
       THEN [low_tab |-> [st.low_tab EXCEPT ![lo] = BitOr(@, Shl8(1, st.current_bit))],
             high_tab |-> [st.high_tab EXCEPT ![hi] = BitOr(@, Shl8(1, st.current_bit))],
             assigned_mask |-> BitOr(st.assigned_mask, Shl8(1, st.current_bit)),
             current_bit |-> st.current_bit + 1,
             col |-> st.current_bit]
       ELSE [st EXCEPT !.col = -1]

\* the shift amounts of one turn of the loop: `1 << bit_index` in each call
\* of is_safe up to the break, `1 << b` of the placement, `1 << current_bit`
\* of a fresh column
SlowShifts(targets, c, st) ==
    LET b == FirstSafe(0, st.current_bit, c, targets, st.low_tab, st.high_tab)
    IN IF b >= 0 THEN 0..b
       ELSE IF st.current_bit < COLUMNS THEN 0..st.current_bit
       ELSE 0..(st.current_bit - 1)

SlowInit ==
    [low_tab |-> Zero16, high_tab |-> Zero16, assigned_mask |-> 0,
     current_bit |-> 0, col |-> -1]

RECURSIVE SlowLoop(_, _, _)
SlowLoop(targets, i, st) ==
    IF i >= Len(targets)
    THEN Some([low_tab |-> st.low_tab, high_tab |-> st.high_tab,
               bit_mask |-> st.assigned_mask])
    ELSE IF st.current_bit >= COLUMNS THEN None
    ELSE SlowLoop(targets, i + 1, SlowBody(targets, targets[i + 1], st))

build_shufti_table_slow(targets) == SlowLoop(targets, 0, SlowInit)

----------------------------------------------------------------------------
(* shufti-matcher: the back-end primitive.                                 *)

\* x << k on a u16
Shl16(x, k) == (x * (2 ^ (k % 16))) % 65536

RECURSIVE Lanes(_, _, _, _, _, _)
\* `for (i, &b) in data.iter().enumerate()` of the scalar bitmask_16b.
\* The next turn's i and mask are bound as values (j, m): an operator's
\* argument is evaluated by name wherever ENABLED is evaluated.
Lanes(low, high, bit_mask, data, i, mask) ==
    IF i >= CHUNK THEN mask
    ELSE LET b == data[i + 1]
             lo == b % 16        \* b & 0x0f
             hi == b \div 16     \* b >> 4
         IN CHOOSE r \in {Lanes(low, high, bit_mask, data, j, m) :
                              j \in {i + 1},
                              m \in {IF BitAnd(BitAnd(low[lo], high[hi]), bit_mask) # 0
                                     THEN BitOr(mask, Shl16(1, i))
                                     ELSE mask}} : TRUE

\* arch::bitmask_16b, scalar fallback
bitmask_16b(low, high, bit_mask, data) == Lanes(low, high, bit_mask, data, 0, 0)

(* A 128-bit register is a function from its byte lanes 0..15 to 0..255,   *)
(* lane 0 the byte at the lowest address.                                  *)

\* `x as i8` of a u8, `x as u16` of a wider integer
as_i8(x) == IF x >= 128 THEN x - 256 ELSE x
as_u16(x) == x % 65536

\* a [u8; 16] behind a pointer: a table (indexed from 0) or a chunk
ArrayAt(a) == IF DOMAIN a = 0..15 THEN a ELSE [i \in 0..15 |-> a[i + 1]]

(* SSE2 / SSSE3 intrinsics.                                                *)

_mm_loadu_si128(a) == [i \in 0..15 |-> ArrayAt(a)[i]]
\* the argument is an i8; the lanes hold its two's complement byte
_mm_set1_epi8(a) == [i \in 0..15 |-> a % 256]
_mm_setzero_si128 == [i \in 0..15 |-> 0]
_mm_and_si128(a, b) == [i \in 0..15 |-> BitAnd(a[i], b[i])]
\* (NOT a) AND b
_mm_andnot_si128(a, b) == [i \in 0..15 |-> BitAnd(255 - a[i], b[i])]
\* logical right shift of the eight 16-bit lanes: bits of the upper byte of
\* a lane move into its lower byte
_mm_srli_epi16(a, n) ==
    [i \in 0..15 |->
        LET w == a[2 * (i \div 2)] + 256 * a[2 * (i \div 2) + 1]
            r == w \div (2 ^ n)
        IN IF i % 2 = 0 THEN r % 256 ELSE r \div 256]
\* pshufb: a lane whose index has bit 7 set is zeroed, otherwise the low
\* four bits of the index select the byte
_mm_shuffle_epi8(a, b) == [i \in 0..15 |-> IF b[i] >= 128 THEN 0 ELSE a[b[i] % 16]]
_mm_cmpeq_epi8(a, b) == [i \in 0..15 |-> IF a[i] = b[i] THEN 255 ELSE 0]

RECURSIVE MoveMaskFrom(_, _)
MoveMaskFrom(a, i) ==
    IF i > 15 THEN 0 ELSE (a[i] \div 128) * (2 ^ i) + MoveMaskFrom(a, i + 1)

\* bit i of the result is the top bit of lane i
_mm_movemask_epi8(a) == MoveMaskFrom(a, 0)

\* `hi` of the SSSE3 back-end without the 0x0f mask
ssse3_hi_unmasked(input) == _mm_srli_epi16(input, 4)

\* `let hi = _mm_and_si128(_mm_srli_epi16(input, 4), nib_mask)`
ssse3_hi(input) == _mm_and_si128(_mm_srli_epi16(input, 4), _mm_set1_epi8(as_i8(15)))

\* arch::x86_64::ssse3::bitmask_16b
ssse3_bitmask_16b(low, high, bit_mask, data) ==
    LET l_tab == _mm_loadu_si128(low)
        h_tab == _mm_loadu_si128(high)
        input == _mm_loadu_si128(data)
        nib_mask == _mm_set1_epi8(as_i8(15))
        lo == _mm_and_si128(input, nib_mask)
        hi == ssse3_hi(input)
        lo_sf == _mm_shuffle_epi8(l_tab, lo)
        hi_sf == _mm_shuffle_epi8(h_tab, hi)
        v == _mm_and_si128(lo_sf, hi_sf)
        bm == _mm_set1_epi8(as_i8(bit_mask))
        masked == _mm_and_si128(v, bm)
        nonzero == _mm_andnot_si128(_mm_cmpeq_epi8(masked, _mm_setzero_si128),
                                    _mm_set1_epi8(-1))
    IN as_u16(_mm_movemask_epi8(nonzero))

(* NEON intrinsics.                                                        *)

vld1q_u8(a) == [i \in 0..15 |-> ArrayAt(a)[i]]
vmovq_n_u8(x) == [i \in 0..15 |-> x]
vandq_u8(a, b) == [i \in 0..15 |-> BitAnd(a[i], b[i])]
\* byte-granular right shift
vshrq_n_u8(a, n) == [i \in 0..15 |-> a[i] \div (2 ^ n)]
\* tbl: an index out of 0..15 gives 0
vqtbl1q_u8(t, ix) == [i \in 0..15 |-> IF ix[i] < 16 THEN t[ix[i]] ELSE 0]
\* 0xFF where (a & b) != 0
vtstq_u8(a, b) == [i \in 0..15 |-> IF BitAnd(a[i], b[i]) # 0 THEN 255 ELSE 0]
\* pairwise add long: neighbouring lanes are added into a lane twice as wide
\* (the sums of sixteen bytes stay far below the width of any lane)
vpaddlq_u8(a) == [j \in 0..7 |-> a[2 * j] + a[2 * j + 1]]
vpaddlq_u16(a) == [j \in 0..3 |-> a[2 * j] + a[2 * j + 1]]
vpaddlq_u32(a) == [j \in 0..1 |-> a[2 * j] + a[2 * j + 1]]
vgetq_lane_u64(a, lane) == a[lane]

\* [1u8, 2, 4, 8, 16, 32, 64, 128, 1, 2, 4, 8, 16, 32, 64, 128]
LaneWeights == [i \in 0..15 |-> 2 ^ (i % 8)]

\* `vgetq_lane_u64(res16, 0) | (vgetq_lane_u64(res16, 1) << 8)`
neon_pack(res16) ==
    BitOr(vgetq_lane_u64(res16, 0), vgetq_lane_u64(res16, 1) * (2 ^ 8))

\* arch::neon::bitmask_16b, and ShuftiTable::bitmask_16b on aarch64
neon_bitmask_16b(low, high, bit_mask, data) ==
    LET l_tab == vld1q_u8(low)
        h_tab == vld1q_u8(high)
        input == vld1q_u8(data)
        low_mask == vmovq_n_u8(15)
        lo == vandq_u8(input, low_mask)
        hi == vshrq_n_u8(input, 4)
        lo_sf == vqtbl1q_u8(l_tab, lo)
        hi_sf == vqtbl1q_u8(h_tab, hi)
        v == vandq_u8(lo_sf, hi_sf)
        matches == vtstq_u8(v, vmovq_n_u8(bit_mask))
        masked == vandq_u8(matches, vld1q_u8(LaneWeights))
        res64 == vpaddlq_u8(masked)
        res32 == vpaddlq_u16(res64)
        res16 == vpaddlq_u32(res32)
        mask64 == neon_pack(res16)
    IN as_u16(mask64)

----------------------------------------------------------------------------
(* shufti-macro: the derive.                                               *)

\* An option inside #[shufti(...)]: `set = "<lit>"` (is_str), `set = <a
\* literal that is no string>`, or another key.
SetMeta(lit) == [key |-> "set", is_str |-> TRUE, lit |-> lit]
NonStrMeta == [key |-> "set", is_str |-> FALSE, lit |-> <<>>]
OtherMeta == [key |-> "other", is_str |-> FALSE, lit |-> <<>>]

ShuftiAttr(metas) == [path |-> "shufti", metas |-> metas]
ForeignAttr == [path |-> "doc", metas |-> <<>>]

RECURSIVE parse_nested_meta(_, _, _)
\* attr.parse_nested_meta(|meta| ..) from option i on: the closure runs on
\* each option in turn and its first error ends the parse
parse_nested_meta(metas, i, found) ==
    IF i > Len(metas) THEN [err |-> "", found |-> found]
    ELSE LET meta == metas[i]
         IN IF meta.key = "set"
            THEN IF meta.is_str
                 THEN parse_nested_meta(metas, i + 1, Some(meta.lit))
                 ELSE [err |-> "expected string literal for set", found |-> found]
            ELSE [err |-> "unknown shufti attribute key", found |-> found]

RECURSIVE ExtractFrom(_, _)
\* the `for attr in attrs` loop of extract_set_attr, from attribute i on
ExtractFrom(as, i) ==
    IF i > Len(as)
    THEN [err |-> "missing shufti set attribute", val |-> <<>>]
    ELSE IF as[i].path # "shufti" THEN ExtractFrom(as, i + 1)
    ELSE LET r == parse_nested_meta(as[i].metas, 1, None)
         IN IF r.err # "" THEN [err |-> r.err, val |-> <<>>]
            ELSE IF r.found # None THEN [err |-> "", val |-> r.found[1]]
            ELSE ExtractFrom(as, i + 1)

extract_set_attr(as) == ExtractFrom(as, 1)

\* the UTF-8 encoding of one character (str::bytes)
Utf8(cp) ==
    IF cp < 128 THEN <<cp>>
    ELSE IF cp < 2048 THEN <<192 + (cp \div 64), 128 + (cp % 64)>>
    ELSE <<224 + (cp \div 4096), 128 + ((cp \div 64) % 64), 128 + (cp % 64)>>

RECURSIVE Utf8From(_, _)
Utf8From(s, i) == IF i > Len(s) THEN <<>> ELSE Utf8(s[i]) \o Utf8From(s, i + 1)

\* set_str.bytes().collect()
StrBytes(s) == Utf8From(s, 1)

HexDigits == <<"0", "1", "2", "3", "4", "5", "6", "7",
               "8", "9", "a", "b", "c", "d", "e", "f">>

\* format!("{:02x}", b)
Hex02(b) == <<HexDigits[(b \div 16) + 1], HexDigits[(b % 16) + 1]>>

RECURSIVE DupScanAdjacent(_, _, _)
\* DupScan that compares each byte with its right neighbour only
DupScanAdjacent(ns, i, j) ==
    IF j >= Len(ns) THEN None
    ELSE IF ns[i + 1] = ns[j + 1] THEN Some(ns[i + 1])
    ELSE DupScanAdjacent(ns, i + 1, j + 1)

RECURSIVE DupScan(_, _, _)
\* the uniqueness check: for i in 0..len { for j in (i+1)..len { .. } };
\* Some(needles[i]) at the first equal pair
DupScan(ns, i, j) ==
    IF i >= Len(ns) THEN None
    ELSE IF j >= Len(ns) THEN DupScan(ns, i + 1, i + 2)
    ELSE IF ns[i + 1] = ns[j + 1] THEN Some(ns[i + 1])
    ELSE DupScan(ns, i, j + 1)

NoTable == [low_tab |-> Zero16, high_tab |-> Zero16, bit_mask |-> 0]

Pending ==
    [status |-> "pending", msg |-> "", hex |-> <<>>, SET |-> <<>>,
     NEEDLE_COUNT |-> 0, table |-> NoTable]

\* Err(syn::Error::new_spanned(..))
Err(msg, hex) == [Pending EXCEPT !.status = "err", !.msg = msg, !.hex = hex]

\* Ok(quote! { impl .. { const SET = #set_repr; const NEEDLE_COUNT = #needle_len; .. } })
Emit(s, ns, table) ==
    [Pending EXCEPT !.status = "ok", !.SET = s, !.NEEDLE_COUNT = Len(ns),
                    !.table = table]

\* the checks of impl_shufti_matcher between the parse and the build
Validate(ns) ==
    IF Len(ns) = 0 THEN Some(Err("shufti set must have >=1 bytes", <<>>))
    ELSE LET d == DupScan(ns, 0, 1)
         IN IF d # None
            THEN Some(Err("shufti set contains duplicate byte 0x", Hex02(d[1])))
            ELSE None

BuildFailed == Err("failed to build shufti table", <<>>)

\* the dispatch with the limit one too high
UseFastUpTo9(ns) == Len(ns) <= FAST_MAX + 1

\* `if needles.len() <= 8`
UseFast(ns) == Len(ns) <= FAST_MAX

\* impl_shufti_matcher up to the call of a builder; the fast builder runs
\* to its end here, the slow one is entered
Derive ==
    /\ pc = "derive"
    /\ LET r == extract_set_attr(attrs)
           ns == StrBytes(r.val)
           v == Validate(ns)
       IN IF r.err # ""
          THEN /\ outcome' = Err(r.err, <<>>)
               /\ pc' = "done"
               /\ UNCHANGED <<set_str, needles, placed, builder, shifts>>
          ELSE /\ set_str' = r.val
               /\ needles' = ns
               /\ IF v # None
                  THEN /\ outcome' = v[1]
                       /\ pc' = "done"
                       /\ UNCHANGED <<placed, builder, shifts>>
                  ELSE IF UseFast(ns)
                  THEN /\ outcome' = Emit(r.val, ns, build_shufti_tables(ns))
                       /\ placed' = FastColumns(ns)
                       /\ builder' = "build_shufti_tables"
                       /\ shifts' = FastShifts(ns)
                       /\ pc' = "done"
                  ELSE /\ pc' = "slow"
                       /\ builder' = "build_shufti_table_slow"
                       /\ UNCHANGED <<outcome, placed, shifts>>
    /\ UNCHANGED <<attrs, low_tab, high_tab, current_bit, assigned_mask, idx>>
    /\ UNCHANGED find_vars
    /\ UNCHANGED backend_vars

\* one turn of `for &c in targets` in build_shufti_table_slow; its
\* `return None` makes impl_shufti_matcher return the build error
SlowIter ==
    /\ pc = "slow"
    /\ idx < Len(needles)
    /\ IF current_bit >= COLUMNS
       THEN /\ outcome' = BuildFailed
            /\ pc' = "done"
            /\ UNCHANGED <<low_tab, high_tab, current_bit, assigned_mask, idx, placed,
                           shifts>>
       ELSE LET now == [low_tab |-> low_tab, high_tab |-> high_tab,
                        assigned_mask |-> assigned_mask,
                        current_bit |-> current_bit, col |-> -1]
                st == SlowBody(needles, needles[idx + 1], now)
            IN /\ shifts' = shifts \cup SlowShifts(needles, needles[idx + 1], now)
               /\ low_tab' = st.low_tab
               /\ high_tab' = st.high_tab
               /\ assigned_mask' = st.assigned_mask
               /\ current_bit' = st.current_bit
               /\ placed' = Append(placed, st.col)
               /\ idx' = idx + 1
               /\ UNCHANGED <<outcome, pc>>
    /\ UNCHANGED <<attrs, set_str, needles, builder>>
    /\ UNCHANGED find_vars
    /\ UNCHANGED backend_vars

\* the loop is over: Some((low_tab, high_tab, assigned_mask)), which
\* impl_shufti_matcher emits
SlowReturn ==
    /\ pc = "slow"
    /\ idx >= Len(needles)
    /\ outcome' = Emit(set_str, needles,
                       [low_tab |-> low_tab, high_tab |-> high_tab,
                        bit_mask |-> assigned_mask])
    /\ pc' = "done"
    /\ UNCHANGED <<attrs, set_str, needles, low_tab, high_tab, current_bit,
                   assigned_mask, idx, placed, builder, shifts>>
    /\ UNCHANGED find_vars
    /\ UNCHANGED backend_vars

(* The declarations the derive is run on.                                  *)

\* all sequences over S of length at most n
SeqsUpTo(S, n) == UNION {[1..k -> S] : k \in 0..n}

\* 0x00, 0x11, 0x22, ...: d characters that share no nibble
DiagPrefix(d) == [i \in 1..d |-> 17 * (i - 1)]

\* 0x01, 0x10, 0x02, 0x21
TailChars == {1, 16, 2, 33}

\* a literal may start with U+00E9, whose encoding is the two bytes 0xC3 0xA9
Heads == {<<>>, <<233>>}

Literals ==
    {h \o DiagPrefix(d) \o t :
        h \in Heads, d \in 0..MaxPrefix, t \in SeqsUpTo(TailChars, MaxTail)}

\* set = "abc", set = "\t\r\n", set = 1, other = ..
SetAbc == SetMeta(<<97, 98, 99>>)
SetWs == SetMeta(<<9, 13, 10>>)

AttrPool ==
    {ForeignAttr, ShuftiAttr(<<>>), ShuftiAttr(<<SetAbc>>), ShuftiAttr(<<SetWs>>),
     ShuftiAttr(<<NonStrMeta>>), ShuftiAttr(<<OtherMeta>>),
     ShuftiAttr(<<SetAbc, OtherMeta>>), ShuftiAttr(<<OtherMeta, SetAbc>>),
     ShuftiAttr(<<SetAbc, SetWs>>), ShuftiAttr(<<SetAbc, NonStrMeta>>)}

Declarations ==
    SeqsUpTo(AttrPool, MaxAttrs)
        \cup {<<ShuftiAttr(<<SetMeta(l)>>)>> : l \in Literals}

NoCall == [low_tab |-> Zero16, high_tab |-> Zero16, bit_mask |-> 0, data |-> <<>>]
NoMasks == [scalar |-> None, ssse3 |-> None, neon |-> None]

BackendOff ==
    /\ call = NoCall
    /\ masks = NoMasks

FindOff ==
    /\ matcher = "none"
    /\ haystack = <<>>
    /\ offset = 0
    /\ fpc = "off"
    /\ ret = None
    /\ prev_ret = None
    /\ pad = 0
    /\ views = <<>>
    /\ epi = None
    /\ via = ""

InitDerive ==
    /\ attrs \in Declarations
    /\ pc = "derive"
    /\ set_str = <<>>
    /\ needles = <<>>
    /\ low_tab = Zero16
    /\ high_tab = Zero16
    /\ current_bit = 0
    /\ assigned_mask = 0
    /\ idx = 0
    /\ placed = <<>>
    /\ builder = ""
    /\ shifts = {}
    /\ outcome = Pending
    /\ FindOff
    /\ BackendOff

NextDerive == Derive \/ SlowIter \/ SlowReturn

SpecDerive == InitDerive /\ [][NextDerive]_vars

----------------------------------------------------------------------------
(* shufti-matcher: find_first.                                             *)

\* what the derive emits for a set of distinct bytes on which the builder
\* succeeds: the fast builder's tables up to 8 needles, the slow one's above
DerivedTable(ns) ==
    IF UseFast(ns) THEN build_shufti_tables(ns)
    ELSE build_shufti_table_slow(ns)[1]

\* "\t\r\n"
WsSet == <<9, 13, 10>>
\* "\0\t\n\r #/:<>?@[\\]^|"
MySet == <<0, 9, 10, 13, 32, 35, 47, 58, 60, 62, 63, 64, 91, 92, 93, 94, 124>>

WsTable == DerivedTable(WsSet)
MyTable == DerivedTable(MySet)

Matchers == {"WsMatcher", "MyMatcher"}

\* Self::SET, as bytes
SET(m) == IF m = "WsMatcher" THEN WsSet ELSE MySet

\* Self::table()
table(m) == IF m = "WsMatcher" THEN WsTable ELSE MyTable

\* ShuftiTable::bitmask_16b, the scalar recipe
ShuftiTable_bitmask_16b(t, data) ==
    Lanes(t.low_tab, t.high_tab, t.bit_mask, data, 0, 0)

RECURSIVE leading_bit(_)
\* index of the highest set bit of a non-zero mask
leading_bit(mask) == IF mask \div 2 = 0 THEN 0 ELSE 1 + leading_bit(mask \div 2)

RECURSIVE trailing_zeros(_)
\* u32::trailing_zeros of a non-zero mask
trailing_zeros(mask) == IF mask % 2 = 1 THEN 0 ELSE 1 + trailing_zeros(mask \div 2)

\* the match of the main loop without the offset of its chunk
ChunkHitNoOffset(off, mask) == Some(trailing_zeros(mask))

\* `return Some(offset + mask.trailing_zeros() as usize)` of the main loop
ChunkHit(off, mask) == Some(off + trailing_zeros(mask))

RECURSIVE ScanBits(_, _, _, _)
\* `for i in 0..remainder { if mask & (1 << i) != 0 { return Some(offset + i) } }`
ScanBits(mask, i, remainder, off) ==
    IF i >= remainder THEN None
    ELSE IF BitAnd(mask, 2 ^ i) # 0 THEN Some(off + i)
    ELSE ScanBits(mask, i + 1, remainder, off)

\* the epilogue's answer without the test `pos < remainder`
EpilogueHitUnclamped(mask, remainder, off) ==
    IF mask # 0 THEN Some(off + trailing_zeros(mask)) ELSE None

\* the epilogue's answer from the mask of its buffer
EpilogueHit(mask, remainder, off) ==
    IF mask # 0
    THEN LET pos == trailing_zeros(mask)
         IN IF pos < remainder THEN Some(off + pos)
            ELSE ScanBits(mask, 0, remainder, off)
    ELSE None

\* `let mut buf = [0u8; 16]; buf[..remainder].copy_from_slice(&haystack[offset..])`
EpilogueBuf(h, off) ==
    [i \in 1..CHUNK |-> IF i <= Len(h) - off THEN h[off + i] ELSE 0]

\* the condition of the main loop with < for <=
LoopCondStrict(off, len) == off + CHUNK < len

\* `offset + 16 <= haystack.len()`
LoopCond(off, len) == off + CHUNK <= len

\* one turn of `while offset + 16 <= haystack.len()`; the locals chunk and
\* mask are bound as values
FastPath ==
    /\ fpc = "loop"
    /\ LoopCond(offset, Len(haystack))
    /\ \E chunk \in {SubSeq(haystack, offset + 1, offset + CHUNK)} :
       \E mask \in {ShuftiTable_bitmask_16b(table(matcher), chunk)} :
          /\ views' = Append(views, [from |-> offset, to |-> offset + CHUNK])
          /\ IF mask # 0
             THEN /\ ret' = ChunkHit(offset, mask)
                  /\ via' = "chunk"
                  /\ fpc' = "done"
                  /\ offset' = offset
             ELSE /\ offset' = offset + CHUNK
                  /\ UNCHANGED <<ret, via, fpc>>
    /\ UNCHANGED <<matcher, haystack, prev_ret, pad, epi>>
    /\ UNCHANGED derive_vars
    /\ UNCHANGED backend_vars

\* the return statements of an epilogue without its `pos < remainder` branch
EpilogueSiteNoPos(mask, remainder, off) ==
    IF mask # 0 /\ ScanBits(mask, 0, remainder, off) # None THEN "scan" ELSE "end"

\* the return statement the epilogue's answer comes from: `pos < remainder`
\* ("pos"), the bit scan ("scan"), the final None ("end")
EpilogueSite(mask, remainder, off) ==
    IF mask # 0
    THEN IF trailing_zeros(mask) < remainder THEN "pos"
         ELSE IF ScanBits(mask, 0, remainder, off) # None THEN "scan"
         ELSE "end"
    ELSE "end"

\* the loop is left: the epilogue, and the return; the locals remainder,
\* buf and mask are bound as values
Epilogue ==
    /\ fpc = "loop"
    /\ ~LoopCond(offset, Len(haystack))
    /\ \E remainder \in {Len(haystack) - offset} :
          IF remainder > 0
          THEN \E buf \in {EpilogueBuf(haystack, offset)} :
               \E mask \in {ShuftiTable_bitmask_16b(table(matcher), buf)} :
                  /\ epi' = Some([copied |-> Len(SubSeq(haystack, offset + 1,
                                                        Len(haystack))),
                                  buf |-> buf, mask |-> mask])
                  /\ ret' = EpilogueHit(mask, remainder, offset)
                  /\ via' = EpilogueSite(mask, remainder, offset)
          ELSE /\ epi' = epi
               /\ ret' = None
               /\ via' = "end"
    /\ fpc' = "done"
    /\ UNCHANGED <<matcher, haystack, offset, prev_ret, pad, views>>
    /\ UNCHANGED derive_vars
    /\ UNCHANGED backend_vars

(* The callers of find_first.                                              *)

\* '\0', '\n', 'a'
HayBytes == {0, 10, 97}

\* n bytes 'a' but for b1 at position p and b2 at position q (0: nowhere)
Hay(n, p, b1, q, b2) ==
    [i \in 1..n |-> IF i = p THEN b1 ELSE IF i = q THEN b2 ELSE 97]

\* at most two bytes stand out: one anywhere, the other right behind it or
\* at the end
Haystacks ==
    UNION {{Hay(n, pq[1], b1, pq[2], b2) :
                pq \in {x \in (0..n) \X (0..n) : x[2] \in {0, n, x[1] + 1}},
                b1 \in HayBytes, b2 \in HayBytes} : n \in 0..MaxHayLen}

\* the caller appends bytes that are no members of the set and calls
\* find_first again
CallAgain ==
    /\ fpc = "done"
    /\ pad = 0
    /\ \E n \in 1..MaxPad : \E b \in HayBytes \ Range(SET(matcher)) :
          /\ haystack' = haystack \o [i \in 1..n |-> b]
          /\ pad' = n
    /\ prev_ret' = ret
    /\ ret' = None
    /\ offset' = 0
    /\ fpc' = "loop"
    /\ views' = <<>>
    /\ epi' = None
    /\ via' = ""
    /\ UNCHANGED matcher
    /\ UNCHANGED derive_vars
    /\ UNCHANGED backend_vars

DeriveOff ==
    /\ attrs = <<>>
    /\ pc = "off"
    /\ set_str = <<>>
    /\ needles = <<>>
    /\ low_tab = Zero16
    /\ high_tab = Zero16
    /\ current_bit = 0
    /\ assigned_mask = 0
    /\ idx = 0
    /\ placed = <<>>
    /\ builder = ""
    /\ shifts = {}
    /\ outcome = Pending

InitFind ==
    /\ matcher \in Matchers
    /\ haystack \in Haystacks
    /\ offset = 0
    /\ fpc = "loop"
    /\ ret = None
    /\ prev_ret = None
    /\ pad = 0
    /\ views = <<>>
    /\ epi = None
    /\ via = ""
    /\ DeriveOff
    /\ BackendOff

NextFind == FastPath \/ Epilogue \/ CallAgain

SpecFind == InitFind /\ [][NextFind]_vars

\* a caller that has not called yet
InitIdle ==
    /\ matcher = "none"
    /\ haystack = <<>>
    /\ offset = 0
    /\ fpc = "idle"
    /\ ret = None
    /\ prev_ret = None
    /\ pad = 0
    /\ views = <<>>
    /\ epi = None
    /\ via = ""
    /\ DeriveOff
    /\ BackendOff

\* the entry of find_first: `let table = Self::table(); let mut offset = 0usize;`
Call ==
    /\ fpc = "idle"
    /\ matcher' \in Matchers
    /\ haystack' \in Haystacks
    /\ offset' = 0
    /\ fpc' = "loop"
    /\ UNCHANGED <<ret, prev_ret, pad, views, epi, via>>
    /\ UNCHANGED derive_vars
    /\ UNCHANGED backend_vars

NextCall == Call \/ FastPath \/ Epilogue

\* find_first is straight-line code around one loop: a call that has begun
\* keeps taking its steps.  Whether a caller calls is left open.
SpecFindFair ==
    InitIdle /\ [][NextCall]_vars /\ WF_vars(FastPath) /\ WF_vars(Epilogue)

----------------------------------------------------------------------------
(* shufti-matcher/src/arch: one chunk handed to each back-end.             *)

CallScalar ==
    /\ call # NoCall
    /\ masks.scalar = None
    /\ masks' = [masks EXCEPT !.scalar =
                    Some(bitmask_16b(call.low_tab, call.high_tab, call.bit_mask, call.data))]
    /\ UNCHANGED call
    /\ UNCHANGED derive_vars
    /\ UNCHANGED find_vars

CallSsse3 ==
    /\ call # NoCall
    /\ masks.ssse3 = None
    /\ masks' = [masks EXCEPT !.ssse3 =
                    Some(ssse3_bitmask_16b(call.low_tab, call.high_tab, call.bit_mask,
                                           call.data))]
    /\ UNCHANGED call
    /\ UNCHANGED derive_vars
    /\ UNCHANGED find_vars

CallNeon ==
    /\ call # NoCall
    /\ masks.neon = None
    /\ masks' = [masks EXCEPT !.neon =
                    Some(neon_bitmask_16b(call.low_tab, call.high_tab, call.bit_mask,
                                          call.data))]
    /\ UNCHANGED call
    /\ UNCHANGED derive_vars
    /\ UNCHANGED find_vars

(* The calls.                                                              *)

\* eight needles at and above 0x80: the fast builder uses all eight columns
HighSet == <<128, 145, 162, 179, 196, 213, 230, 255>>

\* tables no builder returns: every nibble told apart, entries with bits
\* that a bit_mask may leave out
NibbleLow == [low_tab |-> [n \in 0..15 |-> 2 ^ (n % 8)], high_tab |-> [n \in 0..15 |-> 255]]
NibbleHigh == [low_tab |-> [n \in 0..15 |-> 255], high_tab |-> [n \in 0..15 |-> 2 ^ (n \div 2)]]
Mixed == [low_tab |-> [n \in 0..15 |-> 16 * n + (15 - n)],
          high_tab |-> [n \in 0..15 |-> (37 * n + 128) % 256]]

TablePairs ==
    {[low_tab |-> t.low_tab, high_tab |-> t.high_tab] :
        t \in {WsTable, MyTable, build_shufti_tables(HighSet)}}
        \cup {NibbleLow, NibbleHigh, Mixed}

BitMasks == {0, 1, 127, 128, 255}

\* chunk (base, k): lane j holds the byte of high nibble base + j and low
\* nibble j + k, so that every byte stands once at every lane and the two
\* bytes of a 16-bit lane differ in both nibbles
DiagChunks ==
    {[j \in 1..CHUNK |-> ByteOf((base + j - 1) % 16, (j - 1 + k) % 16)] :
        base \in 0..15, k \in 0..15}

Chunks == DiagChunks \cup {[j \in 1..CHUNK |-> 0], [j \in 1..CHUNK |-> 255]}

Calls ==
    {[low_tab |-> t.low_tab, high_tab |-> t.high_tab, bit_mask |-> bm, data |-> d] :
        t \in TablePairs, bm \in BitMasks, d \in Chunks}

InitBackend ==
    /\ call \in Calls
    /\ masks = NoMasks
    /\ DeriveOff
    /\ FindOff

NextBackend == CallScalar \/ CallSsse3 \/ CallNeon

SpecBackend == InitBackend /\ [][NextBackend]_vars

----------------------------------------------------------------------------
(* Properties of the derive and of the builders (SpecDerive).              *)

DeriveOk == pc = "done" /\ outcome.status = "ok"

\* 256 chunks in which every byte stands once at every lane: chunk (base, k)
\* holds the sixteen bytes of high nibble base, rotated by k
ProbeChunks ==
    {[j \in 1..CHUNK |-> ByteOf(base, (j - 1 + k) % 16)] : base \in 0..15, k \in 0..15}

\* needle i of the list: the column (placed) and the byte
InColumn(c, k) == \E i \in 1..Len(needles) : needles[i] = c /\ placed[i] = k

\* bit k of low_tab[c & 0x0f] & high_tab[c >> 4] & bit_mask
ColumnBit(t, c, k) ==
    Bit(BitAnd(BitAnd(t.low_tab[c % 16], t.high_tab[c \div 16]), t.bit_mask), k)

\* C2: membership correctness of built tables.  Whenever the derive has
\* succeeded (fast builder for at most 8 needles, slow builder above), every
\* byte c at every lane i of a chunk has bit i of bitmask_16b set if and
\* only if c is a needle.
C2_Membership ==
    DeriveOk =>
        LET t == outcome.table
            set == Range(needles)
        IN \A chunk \in ProbeChunks :
              LET mask == bitmask_16b(t.low_tab, t.high_tab, t.bit_mask, chunk)
              IN \A i \in 0..(CHUNK - 1) :
                    (Bit(mask, i) = 1) <=> (chunk[i + 1] \in set)

\* the slow builder has succeeded on a set in which some column is shared
C2_Witness ==
    /\ DeriveOk
    /\ Len(needles) > FAST_MAX
    /\ Cardinality(Range(placed)) < Len(placed)

\* C3 (as claimed): the slow builder fails only at a needle for which no
\* allocated column is safe while 8 columns are allocated; a needle that is
\* safe in an allocated column never causes the failure.
C3_FailsOnlyWhenNoColumnSafe ==
    (pc = "done" /\ outcome = BuildFailed) =>
        /\ current_bit = COLUMNS
        /\ \A b \in 0..(current_bit - 1) :
              ~is_safe(b, needles[idx + 1], needles, low_tab, high_tab)

\* C5: fast-path builder identity.  For k <= 8 distinct needles the result
\* has bit_mask = 2^k - 1, bit i of low_tab[n] set exactly when
\* n = N[i] & 0x0f and bit i of high_tab[n] exactly when n = N[i] >> 4.
C5_FastIdentity ==
    (DeriveOk /\ Len(needles) <= FAST_MAX) =>
        LET t == outcome.table
            k == Len(needles)
        IN /\ t.bit_mask = (2 ^ k) - 1
           /\ \A n \in 0..15 : \A i \in 0..(COLUMNS - 1) :
                 /\ (Bit(t.low_tab[n], i) = 1) <=> (i < k /\ n = needles[i + 1] % 16)
                 /\ (Bit(t.high_tab[n], i) = 1) <=> (i < k /\ n = needles[i + 1] \div 16)
           /\ needles = <<97, 98, 99>> =>
                 /\ t.low_tab = [n \in 0..15 |-> IF n = 1 THEN 1 ELSE IF n = 2 THEN 2
                                                  ELSE IF n = 3 THEN 4 ELSE 0]
                 /\ t.high_tab = [n \in 0..15 |-> IF n = 6 THEN 7 ELSE 0]
                 /\ t.bit_mask = 7

\* the fast builder has run on exactly 8 needles (bit_mask 0xFF)
C5_Witness == DeriveOk /\ Len(needles) = FAST_MAX /\ outcome.table.bit_mask = 255

\* the value two hexadecimal digits stand for
HexValue(hex) ==
    LET d(x) == CHOOSE n \in 0..15 : HexDigits[n + 1] = x
    IN 16 * d(hex[1]) + d(hex[2])

Occurrences(bs, b) == Cardinality({i \in 1..Len(bs) : bs[i] = b})

\* C7: the outcome of the derive as a function of the set literal's bytes:
\* an error for an empty set, for a byte that occurs twice (the message
\* carries the hex value of such a byte), for more than 8 bytes on which the
\* slow builder fails; otherwise success with SET the literal, NEEDLE_COUNT
\* its byte length and the builder's tables (the fast builder for 1..8).
C7_DeriveOutcome ==
    LET r == extract_set_attr(attrs)
        bs == StrBytes(r.val)
    IN (pc = "done" /\ r.err = "") =>
        IF bs = <<>>
        THEN outcome = Err("shufti set must have >=1 bytes", <<>>)
        ELSE IF \E b \in Range(bs) : Occurrences(bs, b) >= 2
        THEN /\ outcome.status = "err"
             /\ outcome.msg = "shufti set contains duplicate byte 0x"
             /\ Len(outcome.hex) = 2
             /\ Occurrences(bs, HexValue(outcome.hex)) >= 2
        ELSE IF Len(bs) <= FAST_MAX
        THEN outcome = Emit(r.val, bs, build_shufti_tables(bs))
        ELSE IF build_shufti_table_slow(bs) = None
        THEN outcome = BuildFailed
        ELSE outcome = Emit(r.val, bs, build_shufti_table_slow(bs)[1])

\* a duplicate was reported whose two occurrences are not neighbours
C7_Witness ==
    /\ pc = "done"
    /\ outcome.msg = "shufti set contains duplicate byte 0x"
    /\ \E i, j \in 1..Len(needles) :
          j > i + 1 /\ needles[i] = needles[j] /\ HexValue(outcome.hex) = needles[i]
    /\ \A i \in 1..(Len(needles) - 1) : needles[i] # needles[i + 1]

\* some #[shufti(...)] attribute of the declaration holds a key other than set
HasUnknownKey(as) ==
    \E i \in 1..Len(as) :
        as[i].path = "shufti" /\ \E m \in 1..Len(as[i].metas) : as[i].metas[m].key # "set"

\* C8 (as claimed): if any option key other than `set` appears in any
\* #[shufti(...)] attribute, the derive ends in an error.
C8_UnknownKeyRejected ==
    (pc = "done" /\ HasUnknownKey(attrs)) => outcome.status = "err"

\* C9: no ghost byte at any step of the slow builder.  In every state of
\* the loop, if some bit is set in both low_tab[lo] and high_tab[hi] then
\* the byte (hi << 4) | lo is a needle.
C9_NoGhostAtEveryStep ==
    \A hi \in 0..15 : \A lo \in 0..15 :
        BitAnd(low_tab[lo], high_tab[hi]) # 0 => Contains(needles, ByteOf(hi, lo))

\* the loop is under way and a column holds more than one needle
C9_Witness ==
    /\ pc = "slow"
    /\ idx < Len(needles)
    /\ Cardinality(Range(placed)) < Len(placed)

SafeColumns ==
    {b \in 0..(current_bit - 1) :
        is_safe(b, needles[idx + 1], needles, low_tab, high_tab)}

Min(S) == CHOOSE x \in S : \A y \in S : x <= y

\* table tab with bit k set in entry n
WithBit(tab, n, k) == [m \in 0..15 |-> IF m = n THEN BitOr(tab[m], 2 ^ k) ELSE tab[m]]

\* C11: placement order of the slow builder.  Every step of the loop takes
\* the next needle of the input; the needle goes into the lowest allocated
\* column that is safe for it against the tables of that moment; a fresh
\* column, whose index is the number of columns allocated so far, is taken
\* only when no allocated column is safe; nothing else in the tables moves.
C11_PlacementOrder ==
    [][(pc = "slow" /\ idx' # idx) =>
          LET c == needles[idx + 1]
              fresh == SafeColumns = {}
              k == IF fresh THEN current_bit ELSE Min(SafeColumns)
          IN /\ idx' = idx + 1
             /\ needles' = needles
             /\ placed' = Append(placed, k)
             /\ current_bit' = IF fresh THEN current_bit + 1 ELSE current_bit
             /\ low_tab' = WithBit(low_tab, c % 16, k)
             /\ high_tab' = WithBit(high_tab, c \div 16, k)]_vars

\* the loop has put a needle into an allocated column other than column 0
\* (the columns below it were unsafe), has taken a fresh column after that,
\* and stands at a needle for which two allocated columns are safe
C11_Witness ==
    /\ pc = "slow"
    /\ idx < Len(needles)
    /\ \E j, i, f \in 1..Len(placed) :
          /\ j < i /\ i < f
          /\ placed[i] > 0
          /\ placed[j] = placed[i]
          /\ \A e \in 1..(f - 1) : placed[e] < placed[f]
    /\ Cardinality(SafeColumns) >= 2

\* the bits 0..n-1: (1 << n) - 1
LowBits(n) == (2 ^ n) - 1

\* no entry of the two tables has a bit outside mask
WithinMask(low, high, mask) ==
    \A n \in 0..15 : \A k \in 0..(COLUMNS - 1) :
        (Bit(low[n], k) = 1 \/ Bit(high[n], k) = 1) => Bit(mask, k) = 1

\* build_shufti_table_slow has been entered
InSlowBuilder == pc = "slow" \/ idx > 0

\* C12: bit_mask is exactly the set of columns in use.  In every state of
\* the slow builder assigned_mask = (1 << next_column) - 1, every column of
\* assigned_mask holds at least one needle and no entry of low_tab or
\* high_tab has a bit outside assigned_mask; the tables either builder
\* returns have the same shape, the fast builder's with next_column = |N|.
C12_MaskIsColumnsInUse ==
    /\ InSlowBuilder =>
          /\ assigned_mask = LowBits(current_bit)
          /\ \A k \in 0..(COLUMNS - 1) :
                (Bit(assigned_mask, k) = 1) <=> (\E i \in 1..Len(placed) : placed[i] = k)
          /\ WithinMask(low_tab, high_tab, assigned_mask)
    /\ DeriveOk =>
          LET t == outcome.table
              next_column == IF Len(needles) <= FAST_MAX THEN Len(needles)
                             ELSE current_bit
          IN /\ t.bit_mask = LowBits(next_column)
             /\ \A k \in 0..(COLUMNS - 1) :
                   (Bit(t.bit_mask, k) = 1) <=> (\E i \in 1..Len(placed) : placed[i] = k)
             /\ WithinMask(t.low_tab, t.high_tab, t.bit_mask)

\* the slow builder is under way with some but not all columns allocated,
\* one of them shared
C12_Witness ==
    /\ pc = "slow"
    /\ current_bit \in 2..(COLUMNS - 1)
    /\ current_bit < idx
    /\ idx < Len(needles)

\* C15: shift and column-count bounds of the builders.  current_bit never
\* exceeds 8; every shift `1 << k` a builder makes on a table entry, on
\* assigned_mask or in is_safe has k in 0..7; build_shufti_tables is called
\* with at most 8 needles, its shifts being 0..|N|-1.
C15_ShiftBounds ==
    /\ current_bit \in 0..8
    /\ shifts \subseteq 0..7
    /\ builder = "build_shufti_tables" =>
          /\ Len(needles) \in 1..8
          /\ shifts = 0..(Len(needles) - 1)
    /\ builder = "build_shufti_table_slow" =>
          /\ Len(needles) > 8
          /\ shifts = 0..(current_bit - 1)

\* the slow builder has allocated its eighth column (a shift by 7) and goes on
C15_Witness ==
    /\ pc = "slow"
    /\ current_bit = 8
    /\ 7 \in shifts
    /\ idx < Len(needles)

----------------------------------------------------------------------------
(* Properties of find_first (SpecFind).                                    *)

Returned == fpc = "done"

\* haystack[j] (0-based) is a member of the matcher's set
IsMember(j) == haystack[j + 1] \in Range(SET(matcher))

\* C1: position contract.  find_first = Some(i) implies that haystack[i] is
\* in SET and no earlier byte is; find_first = None implies that no byte of
\* the haystack is in SET.
C1_PositionContract ==
    Returned =>
        IF ret # None
        THEN /\ ret[1] \in 0..(Len(haystack) - 1)
             /\ IsMember(ret[1])
             /\ \A j \in 0..(ret[1] - 1) : ~IsMember(j)
        ELSE \A j \in 0..(Len(haystack) - 1) : ~IsMember(j)

\* a match behind an earlier full chunk, with another member after it
C1_Witness ==
    /\ Returned
    /\ ret # None
    /\ ret[1] >= CHUNK
    /\ \E j \in (ret[1] + 1)..(Len(haystack) - 1) : IsMember(j)

\* C4: find_first never returns an offset >= len(haystack); when 0x00 is a
\* member and the length is no multiple of 16, the zero padding of the
\* epilogue buffer is never reported, and a 0x00 of the haystack's tail that
\* is its first member is reported at its own offset.
C4_NoHitPastEnd ==
    Returned =>
        /\ ret # None => ret[1] < Len(haystack)
        /\ (0 \in Range(SET(matcher)) /\ Len(haystack) % CHUNK # 0) =>
              LET tail == CHUNK * (Len(haystack) \div CHUNK)
              IN /\ (\A j \in 0..(Len(haystack) - 1) : ~IsMember(j)) => ret = None
                 /\ \A i \in tail..(Len(haystack) - 1) :
                       (haystack[i + 1] = 0 /\ \A j \in 0..(i - 1) : ~IsMember(j))
                           => ret = Some(i)

\* 0x00 is a member, the epilogue ran on a padded buffer and nothing was found
C4_Witness ==
    /\ Returned
    /\ pad = 0
    /\ 0 \in Range(SET(matcher))
    /\ Len(haystack) % CHUNK # 0
    /\ Len(haystack) > CHUNK
    /\ ret = None

\* C6: chunk invariance.  Appending bytes that are no members never changes
\* the result of find_first.
C6_ChunkInvariance == (Returned /\ pad > 0) => ret = prev_ret

\* 0x00 is a member; the first call found its match in the epilogue, the
\* call on the longer haystack finds it in a full chunk
C6_Witness ==
    /\ Returned
    /\ pad > 0
    /\ 0 \in Range(SET(matcher))
    /\ ret # None
    /\ ret[1] >= CHUNK * ((Len(haystack) - pad) \div CHUNK)
    /\ ret[1] < CHUNK * (Len(haystack) \div CHUNK)

\* C14: scan-loop bounds and termination.  Every call of find_first
\* returns.  The views the main loop reads are haystack[o..o+16] for
\* o = 0, 16, 32, .. with o + 16 <= len.  The zero-padded buffer is
\* evaluated exactly when the loop ran out without a match and
\* len mod 16 != 0 (never for an empty haystack or a multiple of 16; as the
\* only evaluation when len < 16), and it holds the len - offset remaining
\* bytes, copied, and zeros behind them.
C14_Bounds ==
    /\ \A i \in 1..Len(views) :
          /\ views[i].from = CHUNK * (i - 1)
          /\ views[i].to = views[i].from + CHUNK
          /\ views[i].to <= Len(haystack)
    /\ epi # None =>
          /\ epi[1].copied = Len(haystack) - offset
          /\ epi[1].copied \in 1..(CHUNK - 1)
          /\ offset = CHUNK * Len(views)
          /\ \A i \in 1..CHUNK :
                epi[1].buf[i] = IF i <= epi[1].copied THEN haystack[offset + i] ELSE 0
    /\ Returned =>
          /\ (epi # None) <=> (via # "chunk" /\ Len(haystack) % CHUNK # 0)
          /\ Len(haystack) < CHUNK => views = <<>>
          /\ via # "chunk" => Len(views) = Len(haystack) \div CHUNK

C14_ScanLoop == []C14_Bounds /\ ((fpc = "loop") ~> Returned)

\* two full chunks were read without a match and the buffer was filled with
\* a tail shorter than a chunk
C14_Witness ==
    /\ Returned
    /\ Len(views) = 2
    /\ epi # None
    /\ epi[1].copied = 1
    /\ pad = 0

\* the position of the lowest set bit of a non-zero 16-bit mask
LowestBit(mask) ==
    CHOOSE i \in 0..(CHUNK - 1) :
        Bit(mask, i) = 1 /\ \A j \in 0..(i - 1) : Bit(mask, j) = 0

\* C16: the epilogue's bit scan never produces a result.  Whenever the
\* epilogue's mask is non-zero and its lowest set bit is at a position >=
\* remainder, no bit below remainder is set, the loop over 0..remainder
\* returns nothing and find_first returns None; every Some the epilogue
\* returns comes from the `pos < remainder` branch.
C16_ScanNeverHits ==
    /\ via # "scan"
    /\ (Returned /\ epi # None) =>
          LET mask == epi[1].mask
              remainder == epi[1].copied
          IN /\ (mask # 0 /\ LowestBit(mask) >= remainder) =>
                   /\ \A i \in 0..(remainder - 1) : Bit(mask, i) = 0
                   /\ ScanBits(mask, 0, remainder, offset) = None
                   /\ ret = None
                   /\ via = "end"
             /\ ret # None =>
                   /\ via = "pos"
                   /\ ret = Some(offset + LowestBit(mask))
                   /\ LowestBit(mask) < remainder

\* the zero padding matched (0x00 is a member), nothing below remainder
\* did, and find_first went through the scan to its final None
C16_Witness ==
    /\ Returned
    /\ epi # None
    /\ epi[1].mask # 0
    /\ LowestBit(epi[1].mask) >= epi[1].copied
    /\ epi[1].copied > 1
    /\ ret = None

----------------------------------------------------------------------------
(* Properties of the back-ends (SpecBackend).                              *)

\* the scalar recipe for lane i of the call: low_tab[b & 0x0f] &
\* high_tab[b >> 4] & bit_mask != 0
LaneMatches(i) ==
    LET b == call.data[i + 1]
    IN BitAnd(BitAnd(call.low_tab[b % 16], call.high_tab[b \div 16]), call.bit_mask) # 0

\* m is the 16-bit mask of the recipe
IsRecipeMask(m) ==
    /\ m \in 0..65535
    /\ \A i \in 0..(CHUNK - 1) : (Bit(m, i) = 1) <=> LaneMatches(i)

\* C13: back-end equivalence.  For the tables, the bit_mask (bit 7
\* included) and the chunk (bytes >= 0x80 included) of a call, the SSSE3
\* lowering and the NEON lowering return the mask of the scalar recipe,
\* bit i = 1 iff low_tab[chunk[i] & 0x0f] & high_tab[chunk[i] >> 4] &
\* bit_mask != 0, and so does the scalar back-end.
C13_BackendEquivalence ==
    /\ masks.ssse3 # None => IsRecipeMask(masks.ssse3[1])
    /\ masks.neon # None => IsRecipeMask(masks.neon[1])
    /\ masks.scalar # None =>
          /\ IsRecipeMask(masks.scalar[1])
          /\ masks.ssse3 # None => masks.ssse3 = masks.scalar
          /\ masks.neon # None => masks.neon = masks.scalar

\* all three back-ends have run on a bit_mask with bit 7 set; a byte
\* >= 0x80 matches in the upper half of the chunk, a lane of the lower half
\* matches and some lane does not
C13_Witness ==
    /\ masks.scalar # None /\ masks.ssse3 # None /\ masks.neon # None
    /\ call.bit_mask >= 128
    /\ \E i \in 8..15 : call.data[i + 1] >= 128 /\ Bit(masks.ssse3[1], i) = 1
    /\ \E i \in 0..7 : Bit(masks.neon[1], i) = 1
    /\ \E i \in 0..15 : Bit(masks.scalar[1], i) = 0

====
